---- MODULE Spec2Model ----
(***************************************************************************)
(* Job queue, singleton worker and event log of app/pipeline_runtime.py,   *)
(* and the reconciliation of the source directory of app/discovery.py.     *)
(* Every database statement that runs in its own SQLite transaction is one *)
(* step: sqlite3 opens a transaction only in front of INSERT/UPDATE/DELETE *)
(* (db.get_connection uses the default isolation level), so a SELECT and   *)
(* the write that follows it are two steps other threads can interleave.   *)
(***************************************************************************)
EXTENDS Integers, Sequences, FiniteSets, TLC

\* ---------------------------------------------------------------- bounds
NumThreads == 2          \* request threads that call enqueue_job
MaxJobs == 2             \* rows pipeline_jobs can hold
MaxWorkers == 2          \* Thread objects that can exist at once
MaxQueued == 3           \* rows of the store drawn for the claim harness
NumPaths == 3            \* relative paths the source directory can hold
NumHashes == 2           \* distinct file contents
DetectedRows == 1        \* regions the detector returns for an image
MaxWipes == 1            \* wipe requests in a run
MaxLayouts == 2          \* layout rows a page can hold

\* ------------------------------------------------------------- constants
NULL == 0                \* SQL NULL / Python None for page_id
PreviewLimit == 15       \* LIMIT of the queued preview
None == 0                \* _WORKER_THREAD is None
NoFile == 0              \* no qualifying file at a path

Threads == 1..NumThreads
Workers == 1..MaxWorkers
Stages == {"layout_detect", "ocr_extract"}
PageIds == {1}
PageRefs == PageIds \cup {NULL}
\* the (stage, page_id) arguments request threads pass to enqueue_job
Keys == {[stage |-> "layout_detect", page_id |-> 1],
         [stage |-> "layout_detect", page_id |-> NULL],
         [stage |-> "ocr_extract", page_id |-> NULL]}
HANDLERS == {"layout_detect"}
\* rel_path strings and sha256 digests, numbered in their sorted() order
Paths == 1..NumPaths
Hashes == 1..NumHashes
\* ids the pages table can hand out: file_hash is UNIQUE
ScanPageIds == 1..NumHashes

VARIABLES
    jobs,          \* pipeline_jobs: sequence of rows, id = index
    events,        \* pipeline_events: sequence of rows, id = index
    pages,         \* pages: page id -> row
    workerThread,  \* _WORKER_THREAD
    wpc,           \* position of every worker Thread object
    wjob,          \* the row / job dict a worker holds
    wout,          \* the handler's outcome held by a worker
    returned,      \* ids returned by _claim_next_job, in return order
    retries,       \* conditional updates that affected zero rows
    pc,            \* position of every request thread inside enqueue_job
    key,           \* arguments of the enqueue_job call in progress
    ret,           \* per request thread: what its last enqueue_job call returned
    spc,           \* position of the poller inside get_activity_snapshot
    snap,          \* locals of get_activity_snapshot
    view,          \* rows get_activity_snapshot has read so far
    files,         \* source directory: rel_path -> content hash, NoFile if absent
    duplicate_files, \* duplicate_files: rel_path -> row
    summary,       \* what the last discover_images call returned or raised
    scanned,       \* the files the last completed discover_images call observed
    layouts,       \* layouts: page id -> number of rows of that page
    wpos,          \* position of the request inside main.wipe_state
    wipes          \* wipe_state transactions committed so far

vars == <<jobs, events, pages, workerThread, wpc, wjob, wout, returned,
          retries, pc, key, ret, spc, snap, view, files, duplicate_files, summary,
          scanned, layouts, wpos, wipes>>

storeVars == <<jobs, events, pages>>
workerVars == <<workerThread, wpc, wjob, wout, returned, retries>>
callerVars == <<pc, key, ret>>
snapVars == <<spc, snap, view>>
scanVars == <<files, duplicate_files, summary, scanned>>
adminVars == <<layouts, wpos, wipes>>

\* ---------------------------------------------------------------- helpers
JobIds == 1..Len(jobs)

QueuedIds == {i \in JobIds : jobs[i].status = "queued"}

SetMin(S) == CHOOSE x \in S : \A y \in S : x <= y

IsAlive(w) == wpc[w] # "dead"

\* pipeline_events.id: the store numbers the rows in insertion order, from 1
\* again once the table and its sequence have been emptied
NextEventId == Len(events) + 1

Event(type, stage, page_id, job_id) ==
    [id |-> NextEventId, event_type |-> type, stage |-> stage, page_id |-> page_id,
     job_id |-> job_id]

\* variant: the new row takes the place of the rows written before
EmitEventReplaces(type, stage, page_id, job_id) ==
    events' = <<[Event(type, stage, page_id, job_id) EXCEPT !.id = 1]>>

\* emit_event: one INSERT into pipeline_events in its own transaction
emit_event(type, stage, page_id, job_id) ==
    events' = Append(events, Event(type, stage, page_id, job_id))

\* ---------------------------------------------------------------- Init
NoJob == [id |-> 0, stage |-> "", page_id |-> NULL]

NoSnap == [queued |-> 0, worker_running |-> FALSE]

\* running_row, queued_rows and queued_by_stage_rows before their SELECTs
NoView == [in_progress |-> 0, preview |-> <<>>, by_stage |-> [s \in Stages |-> 0]]

\* a pages row: INSERT ... VALUES (rel_path, file_hash, 'new', ..., 0)
PageRow(rel_path, file_hash, status, is_missing) ==
    [present |-> TRUE, rel_path |-> rel_path, file_hash |-> file_hash,
     status |-> status, is_missing |-> is_missing]

NoPage ==
    [present |-> FALSE, rel_path |-> 0, file_hash |-> 0, status |-> "new",
     is_missing |-> FALSE]

\* a duplicate_files row, keyed by its UNIQUE rel_path
DuplicateRow(file_hash, canonical_page_id, active) ==
    [present |-> TRUE, file_hash |-> file_hash,
     canonical_page_id |-> canonical_page_id, active |-> active]

NoDuplicate ==
    [present |-> FALSE, file_hash |-> 0, canonical_page_id |-> 0, active |-> FALSE]

NoSummary ==
    [outcome |-> "none", scanned_files |-> 0, new_pages |-> 0, updated_pages |-> 0,
     missing_marked |-> 0, duplicate_files |-> 0]

NoFiles == [p \in Paths |-> NoFile]

InitCommon ==
    /\ events = <<>>
    /\ workerThread = None
    /\ wjob = [w \in Workers |-> NoJob]
    /\ wout = [w \in Workers |-> "none"]
    /\ returned = <<>>
    /\ retries = 0
    /\ pc = [t \in Threads |-> "idle"]
    /\ key = [t \in Threads |-> [stage |-> "layout_detect", page_id |-> NULL]]
    /\ ret = [t \in Threads |-> "none"]
    /\ spc = "idle"
    /\ snap = NoSnap
    /\ view = NoView
    /\ files = NoFiles
    /\ duplicate_files = [p \in Paths |-> NoDuplicate]
    /\ summary = NoSummary
    /\ scanned = NoFiles
    /\ wpos = "idle"
    /\ wipes = 0

Init ==
    /\ InitCommon
    /\ jobs = <<>>
    /\ pages = [p \in PageIds |-> PageRow(1, 1, "new", FALSE)]
    /\ layouts = [p \in PageIds |-> 0]
    /\ wpc = [w \in Workers |-> "dead"]

\* ------------------------------------------------------- worker singleton
\* variant: the handle is not consulted, every request starts a thread
EnsureStartsAlways ==
    \E w \in Workers :
        /\ ~IsAlive(w)
        /\ \A v \in Workers : ~IsAlive(v) => w <= v
        /\ workerThread' = w
        /\ wpc' = [wpc EXCEPT ![w] = "claim_select"]
        /\ wjob' = [wjob EXCEPT ![w] = NoJob]
        /\ wout' = [wout EXCEPT ![w] = "none"]

EnsureWorkerRunning ==
    IF workerThread # None /\ IsAlive(workerThread)
    THEN UNCHANGED <<workerThread, wpc, wjob, wout>>
    ELSE \E w \in Workers :
            /\ ~IsAlive(w)
            /\ \A v \in Workers : ~IsAlive(v) => w <= v
            /\ workerThread' = w
            /\ wpc' = [wpc EXCEPT ![w] = "claim_select"]
            /\ wjob' = [wjob EXCEPT ![w] = NoJob]
            /\ wout' = [wout EXCEPT ![w] = "none"]

\* ------------------------------------------------------------ enqueue_job
\* variant: the lookup only sees queued rows
ActiveExistsQueuedOnly(stage, page_id) ==
    \E i \in JobIds :
        /\ jobs[i].stage = stage
        /\ jobs[i].page_id = page_id
        /\ jobs[i].status = "queued"

ActiveExists(stage, page_id) ==
    \E i \in JobIds :
        /\ jobs[i].stage = stage
        /\ jobs[i].page_id = page_id
        /\ jobs[i].status \in {"queued", "running"}

\* pipeline_jobs holds the columns of a Job and no uniqueness constraint over
\* (stage, page_id): every INSERT of a well-formed row is accepted
RowAccepted(stage, page_id) == stage \in Stages /\ page_id \in PageRefs

NewJob(stage, page_id) ==
    [stage |-> stage, page_id |-> page_id, status |-> "queued",
     attempts |-> 0, error |-> "null", result |-> "null"]

NoKey == [stage |-> "layout_detect", page_id |-> NULL]

\* variant: the early return also asks for a worker
EnqueueSelectRearms(t, stage, page_id) ==
    /\ pc[t] = "idle"
    /\ IF ActiveExists(stage, page_id)
       THEN /\ ret' = [ret EXCEPT ![t] = "false"]
            /\ key' = [key EXCEPT ![t] = [stage |-> stage, page_id |-> page_id]]
            /\ EnsureWorkerRunning
            /\ UNCHANGED <<pc, returned, retries>>
       ELSE /\ Len(jobs) < MaxJobs
            /\ pc' = [pc EXCEPT ![t] = "insert"]
            /\ key' = [key EXCEPT ![t] = [stage |-> stage, page_id |-> page_id]]
            /\ ret' = [ret EXCEPT ![t] = "none"]
            /\ UNCHANGED workerVars
    /\ UNCHANGED <<storeVars, snapVars, scanVars, adminVars>>

EnqueueSelect(t, stage, page_id) ==
    /\ pc[t] = "idle"
    /\ IF ActiveExists(stage, page_id)
       THEN /\ ret' = [ret EXCEPT ![t] = "false"]
            /\ key' = [key EXCEPT ![t] = [stage |-> stage, page_id |-> page_id]]
            /\ UNCHANGED pc
       ELSE /\ Len(jobs) < MaxJobs
            /\ pc' = [pc EXCEPT ![t] = "insert"]
            /\ key' = [key EXCEPT ![t] = [stage |-> stage, page_id |-> page_id]]
            /\ ret' = [ret EXCEPT ![t] = "none"]
    /\ UNCHANGED <<storeVars, workerVars, snapVars, scanVars, adminVars>>

EnqueueInsert(t) ==
    /\ pc[t] = "insert"
    /\ Len(jobs) < MaxJobs
    /\ RowAccepted(key[t].stage, key[t].page_id)
    /\ jobs' = Append(jobs, NewJob(key[t].stage, key[t].page_id))
    /\ pc' = [pc EXCEPT ![t] = "emit"]
    /\ UNCHANGED <<events, pages, workerVars, key, ret, snapVars, scanVars, adminVars>>

EnqueueEmit(t) ==
    /\ pc[t] = "emit"
    /\ emit_event("job_queued", key[t].stage, key[t].page_id, 0)
    /\ pc' = [pc EXCEPT ![t] = "ensure"]
    /\ UNCHANGED <<jobs, pages, workerVars, key, ret, snapVars, scanVars, adminVars>>

\* variant: the call returns without _ensure_worker_running
EnqueueEnsureSkipped(t) ==
    /\ pc[t] = "ensure"
    /\ ret' = [ret EXCEPT ![t] = "true"]
    /\ key' = [key EXCEPT ![t] = NoKey]
    /\ pc' = [pc EXCEPT ![t] = "idle"]
    /\ UNCHANGED <<storeVars, workerVars, snapVars, scanVars, adminVars>>

EnqueueEnsure(t) ==
    /\ pc[t] = "ensure"
    /\ EnsureWorkerRunning
    /\ ret' = [ret EXCEPT ![t] = "true"]
    /\ key' = [key EXCEPT ![t] = NoKey]
    /\ pc' = [pc EXCEPT ![t] = "idle"]
    /\ UNCHANGED <<storeVars, returned, retries, snapVars, scanVars, adminVars>>

\* -------------------------------------------------------- _claim_next_job
\* SELECT id, stage, page_id ... WHERE status = 'queued' ORDER BY id ASC LIMIT 1
\* variant: ORDER BY id DESC
ClaimCandidateNewest ==
    IF QueuedIds = {}
    THEN NoJob
    ELSE LET id == CHOOSE x \in QueuedIds : \A y \in QueuedIds : x >= y IN
         [id |-> id, stage |-> jobs[id].stage, page_id |-> jobs[id].page_id]

ClaimCandidate ==
    IF QueuedIds = {}
    THEN NoJob
    ELSE LET id == SetMin(QueuedIds) IN
         [id |-> id, stage |-> jobs[id].stage, page_id |-> jobs[id].page_id]

\* UPDATE ... SET status = 'running', attempts = attempts + 1
\* WHERE id = ? AND status = 'queued'; the rows after the statement
\* variant: WHERE id = ? without the status test
ClaimUpdateUnguarded(id) ==
    IF id \in JobIds
    THEN [jobs EXCEPT ![id].status = "running", ![id].attempts = @ + 1]
    ELSE jobs

\* variant: the claim does not count the attempt
ClaimUpdateNoCount(id) ==
    IF id \in JobIds /\ jobs[id].status = "queued"
    THEN [jobs EXCEPT ![id].status = "running"]
    ELSE jobs

ClaimUpdateJobs(id) ==
    IF id \in JobIds /\ jobs[id].status = "queued"
    THEN [jobs EXCEPT ![id].status = "running", ![id].attempts = @ + 1]
    ELSE jobs

ClaimSelect(w) ==
    /\ wpc[w] = "claim_select"
    /\ wjob' = [wjob EXCEPT ![w] = ClaimCandidate]
    /\ wpc' = [wpc EXCEPT ![w] = IF ClaimCandidate = NoJob THEN "exit" ELSE "claim_update"]
    /\ UNCHANGED <<storeVars, workerThread, wout, returned, retries, callerVars, snapVars, scanVars, adminVars>>

ClaimUpdate(w) ==
    /\ wpc[w] = "claim_update"
    /\ jobs' = ClaimUpdateJobs(wjob[w].id)
    /\ IF jobs' # jobs
       THEN /\ wpc' = [wpc EXCEPT ![w] = "emit_started"]
            /\ returned' = Append(returned, wjob[w].id)
            /\ UNCHANGED retries
       ELSE /\ wpc' = [wpc EXCEPT ![w] = "claim_select"]
            /\ retries' = retries + 1
            /\ UNCHANGED returned
    /\ UNCHANGED <<events, pages, workerThread, wjob, wout, callerVars, snapVars, scanVars, adminVars>>

\* ------------------------------------------------------------ _worker_loop
\* variant: an empty queue sends the worker back to the claim
WorkerExitPolls(w) ==
    /\ wpc[w] = "exit"
    /\ wpc' = [wpc EXCEPT ![w] = "claim_select"]
    /\ UNCHANGED <<storeVars, workerThread, wjob, wout, returned, retries, callerVars, snapVars, scanVars, adminVars>>

WorkerExit(w) ==
    /\ wpc[w] = "exit"
    /\ workerThread' = None
    /\ wpc' = [wpc EXCEPT ![w] = "dead"]
    /\ UNCHANGED <<storeVars, wjob, wout, returned, retries, callerVars, snapVars, scanVars, adminVars>>

EmitStarted(w) ==
    /\ wpc[w] = "emit_started"
    /\ emit_event("job_started", wjob[w].stage, wjob[w].page_id, wjob[w].id)
    /\ wpc' = [wpc EXCEPT ![w] = "dispatch"]
    /\ UNCHANGED <<jobs, pages, workerThread, wjob, wout, returned, retries, callerVars, snapVars, scanVars, adminVars>>

\* variant: the lookup result is not tested
DispatchAnyway(w) ==
    /\ wpc[w] = "dispatch"
    /\ wpc' = [wpc EXCEPT ![w] = "handler"]
    /\ UNCHANGED <<storeVars, workerThread, wjob, wout, returned, retries, callerVars, snapVars, scanVars, adminVars>>

\* _worker_loop: handler = _HANDLERS.get(stage)
Dispatch(w) ==
    /\ wpc[w] = "dispatch"
    /\ IF wjob[w].stage \in HANDLERS
       THEN /\ wpc' = [wpc EXCEPT ![w] = "handler"]
            /\ UNCHANGED wout
       ELSE /\ wpc' = [wpc EXCEPT ![w] = "finalize_failure"]
            /\ wout' = [wout EXCEPT ![w] = "error:no handler"]
    /\ UNCHANGED <<storeVars, workerThread, wjob, returned, retries, callerVars, snapVars, scanVars, adminVars>>

\* {"skipped": True, "reason": f"page status is {current_status}"}
SkipReason(current_status) ==
    CASE current_status = "layout_detected" -> "skipped:page status is layout_detected"
      [] current_status = "layout_reviewed" -> "skipped:page status is layout_reviewed"
      [] OTHER -> "skipped:page status is other"

\* variant: the status of the Page is not tested
HandlerBeginAnyStatus(w) ==
    /\ wpc[w] = "handler"
    /\ LET page_id == wjob[w].page_id IN
       IF page_id = NULL \/ ~pages[page_id].present
       THEN /\ wout' = [wout EXCEPT ![w] = "error:raised"]
            /\ wpc' = [wpc EXCEPT ![w] = "finalize_failure"]
            /\ UNCHANGED pages
       ELSE IF pages[page_id].is_missing
       THEN /\ wout' = [wout EXCEPT ![w] = "skipped:page is missing"]
            /\ wpc' = [wpc EXCEPT ![w] = "finalize_success"]
            /\ UNCHANGED pages
       ELSE /\ pages' = [pages EXCEPT ![page_id].status = "layout_detecting"]
            /\ wpc' = [wpc EXCEPT ![w] = "detect"]
            /\ UNCHANGED wout
    /\ UNCHANGED <<jobs, events, workerThread, wjob, returned, retries, callerVars, snapVars, scanVars, adminVars>>

\* _layout_detect_handler up to the delegate call
HandlerBegin(w) ==
    /\ wpc[w] = "handler"
    /\ LET page_id == wjob[w].page_id IN
       IF page_id = NULL \/ ~pages[page_id].present
       THEN /\ wout' = [wout EXCEPT ![w] = "error:raised"]
            /\ wpc' = [wpc EXCEPT ![w] = "finalize_failure"]
            /\ UNCHANGED pages
       ELSE IF pages[page_id].is_missing
       THEN /\ wout' = [wout EXCEPT ![w] = "skipped:page is missing"]
            /\ wpc' = [wpc EXCEPT ![w] = "finalize_success"]
            /\ UNCHANGED pages
       ELSE IF pages[page_id].status \notin {"new", "layout_detecting"}
       THEN /\ wout' = [wout EXCEPT ![w] = SkipReason(pages[page_id].status)]
            /\ wpc' = [wpc EXCEPT ![w] = "finalize_success"]
            /\ UNCHANGED pages
       ELSE /\ pages' = [pages EXCEPT ![page_id].status = "layout_detecting"]
            /\ wpc' = [wpc EXCEPT ![w] = "detect"]
            /\ UNCHANGED wout
    /\ UNCHANGED <<jobs, events, workerThread, wjob, returned, retries, callerVars, snapVars, scanVars, adminVars>>

\* detect_layouts_for_page: the page check, the image check and the detector
DetectRun(w) ==
    /\ wpc[w] = "detect"
    /\ LET page_id == wjob[w].page_id IN
       \E detector_ok \in BOOLEAN :
          IF pages[page_id].present /\ ~pages[page_id].is_missing /\ detector_ok
          THEN wpc' = [wpc EXCEPT ![w] = "detect_store"]
          ELSE wpc' = [wpc EXCEPT ![w] = "revert"]
    /\ UNCHANGED <<storeVars, workerThread, wjob, wout, returned, retries, callerVars, snapVars, scanVars, adminVars>>

\* variant: the layouts are stored and the status is not moved
DetectStoreKeepsStatus(w) ==
    /\ wpc[w] = "detect_store"
    /\ layouts' = [layouts EXCEPT ![wjob[w].page_id] = DetectedRows]
    /\ wout' = [wout EXCEPT ![w] = "result:created"]
    /\ wpc' = [wpc EXCEPT ![w] = "finalize_success"]
    /\ UNCHANGED <<storeVars, workerThread, wjob, returned, retries, callerVars, snapVars, scanVars, wpos, wipes>>

\* detect_layouts_for_page: the transaction that stores the layouts
DetectStore(w) ==
    /\ wpc[w] = "detect_store"
    /\ LET page_id == wjob[w].page_id IN
       pages' = IF pages[page_id].present
                THEN [pages EXCEPT ![page_id].status = "layout_detected"]
                ELSE pages
    /\ layouts' = [layouts EXCEPT ![wjob[w].page_id] = DetectedRows]
    /\ wout' = [wout EXCEPT ![w] = "result:created"]
    /\ wpc' = [wpc EXCEPT ![w] = "finalize_success"]
    /\ UNCHANGED <<jobs, events, workerThread, wjob, returned, retries, callerVars, snapVars, scanVars, wpos, wipes>>

\* variant: the except branch re-raises and leaves the status as it is
HandlerRevertKeeps(w) ==
    /\ wpc[w] = "revert"
    /\ wout' = [wout EXCEPT ![w] = "error:raised"]
    /\ wpc' = [wpc EXCEPT ![w] = "finalize_failure"]
    /\ UNCHANGED <<storeVars, workerThread, wjob, returned, retries, callerVars, snapVars, scanVars, adminVars>>

\* _layout_detect_handler: except branch, then re-raise
HandlerRevert(w) ==
    /\ wpc[w] = "revert"
    /\ LET page_id == wjob[w].page_id IN
       pages' = IF pages[page_id].present /\ ~pages[page_id].is_missing
                THEN [pages EXCEPT ![page_id].status = "new"]
                ELSE pages
    /\ wout' = [wout EXCEPT ![w] = "error:raised"]
    /\ wpc' = [wpc EXCEPT ![w] = "finalize_failure"]
    /\ UNCHANGED <<jobs, events, workerThread, wjob, returned, retries, callerVars, snapVars, scanVars, adminVars>>

\* variant: the status is set and the result not stored
FinalizeSuccessDropsResult(id, result) ==
    IF id \in JobIds
    THEN [jobs EXCEPT ![id].status = "completed", ![id].error = "null"]
    ELSE jobs

\* variant: the result is stored and the status left as it was
FinalizeSuccessKeepsStatus(id, result) ==
    IF id \in JobIds
    THEN [jobs EXCEPT ![id].result = result, ![id].error = "null"]
    ELSE jobs

\* variant: a failed job is put back in the queue
FinalizeFailureRequeues(id, error) ==
    IF id \in JobIds
    THEN [jobs EXCEPT ![id].status = "queued", ![id].error = error]
    ELSE jobs

\* UPDATE pipeline_jobs SET status = 'completed', result_json = ?, error = NULL WHERE id = ?
FinalizeSuccessJobs(id, result) ==
    IF id \in JobIds
    THEN [jobs EXCEPT ![id].status = "completed", ![id].result = result, ![id].error = "null"]
    ELSE jobs

\* UPDATE pipeline_jobs SET status = 'failed', error = ? WHERE id = ?
FinalizeFailureJobs(id, error) ==
    IF id \in JobIds
    THEN [jobs EXCEPT ![id].status = "failed", ![id].error = error]
    ELSE jobs

FinalizeSuccess(w) ==
    /\ wpc[w] = "finalize_success"
    /\ jobs' = FinalizeSuccessJobs(wjob[w].id, wout[w])
    /\ wpc' = [wpc EXCEPT ![w] = "emit_completed"]
    /\ UNCHANGED <<events, pages, workerThread, wjob, wout, returned, retries, callerVars, snapVars, scanVars, adminVars>>

EmitCompleted(w) ==
    /\ wpc[w] = "emit_completed"
    /\ emit_event("job_completed", wjob[w].stage, wjob[w].page_id, wjob[w].id)
    /\ wpc' = [wpc EXCEPT ![w] = "claim_select"]
    /\ wjob' = [wjob EXCEPT ![w] = NoJob]
    /\ wout' = [wout EXCEPT ![w] = "none"]
    /\ UNCHANGED <<jobs, pages, workerThread, returned, retries, callerVars, snapVars, scanVars, adminVars>>

FinalizeFailure(w) ==
    /\ wpc[w] = "finalize_failure"
    /\ jobs' = FinalizeFailureJobs(wjob[w].id, wout[w])
    /\ wpc' = [wpc EXCEPT ![w] = "emit_failed"]
    /\ UNCHANGED <<events, pages, workerThread, wjob, wout, returned, retries, callerVars, snapVars, scanVars, adminVars>>

\* variant: the handler's exception ends the loop
AfterFailureLeaves == "exit"

\* the worker after the job_failed event: the loop's next iteration
AfterFailure == "claim_select"

EmitFailed(w) ==
    /\ wpc[w] = "emit_failed"
    /\ emit_event("job_failed", wjob[w].stage, wjob[w].page_id, wjob[w].id)
    /\ wpc' = [wpc EXCEPT ![w] = AfterFailure]
    /\ wjob' = [wjob EXCEPT ![w] = NoJob]
    /\ wout' = [wout EXCEPT ![w] = "none"]
    /\ UNCHANGED <<jobs, pages, workerThread, returned, retries, callerVars, snapVars, scanVars, adminVars>>

\* --------------------------------------------------- get_activity_snapshot
\* the SELECTs of the call taken together; what the call does next depends
\* on the queued count alone
SnapQuery ==
    /\ spc = "idle"
    /\ snap' = [queued |-> Cardinality(QueuedIds), worker_running |-> FALSE]
    /\ spc' = "check"
    /\ UNCHANGED <<storeVars, workerVars, callerVars, scanVars, adminVars, view>>

\* the ids of S in ascending order, at most n of them: ORDER BY id ASC LIMIT n
RECURSIVE Ascending(_, _)
Ascending(S, n) ==
    IF S = {} \/ n = 0
    THEN <<>>
    ELSE <<SetMin(S)>> \o Ascending(S \ {SetMin(S)}, n - 1)

\* SELECT ... WHERE j.status = 'running' ORDER BY j.started_at ASC, j.id ASC LIMIT 1
RunningRow ==
    LET running == {i \in JobIds : jobs[i].status = "running"} IN
    IF running = {} THEN 0 ELSE SetMin(running)

\* SELECT stage, COUNT(*) ... WHERE status = 'queued' GROUP BY stage
QueuedByStage == [s \in Stages |-> Cardinality({i \in QueuedIds : jobs[i].stage = s})]

\* sum(queued_by_stage.values())
RECURSIVE SumOver(_, _)
SumOver(f, S) ==
    IF S = {} THEN 0
    ELSE LET x == CHOOSE y \in S : TRUE IN f[x] + SumOver(f, S \ {x})

\* The SELECTs of the call one by one: the connection is in sqlite3's default
\* mode, where a SELECT opens no transaction, so each one reads the store as
\* it is when it runs.
SnapRunning ==
    /\ spc = "idle"
    /\ view' = [NoView EXCEPT !.in_progress = RunningRow]
    /\ spc' = "preview"
    /\ UNCHANGED <<storeVars, workerVars, callerVars, scanVars, adminVars, snap>>

SnapPreview ==
    /\ spc = "preview"
    /\ view' = [view EXCEPT !.preview = Ascending(QueuedIds, PreviewLimit)]
    /\ spc' = "count"
    /\ UNCHANGED <<storeVars, workerVars, callerVars, scanVars, adminVars, snap>>

SnapCount ==
    /\ spc = "count"
    /\ view' = [view EXCEPT !.by_stage = QueuedByStage]
    /\ snap' = [queued |-> SumOver(QueuedByStage, Stages), worker_running |-> FALSE]
    /\ spc' = "check"
    /\ UNCHANGED <<storeVars, workerVars, callerVars, scanVars, adminVars>>

\* variant: the queue is not consulted
SnapIgnoresQueue(worker_running, queued) == ~worker_running

\* variant: the snapshot never asks for a worker
SnapNeverRestarts(worker_running, queued) == FALSE

\* if not worker_running and sum(queued_by_stage.values()) > 0
SnapNeedsWorker(worker_running, queued) == ~worker_running /\ queued > 0

SnapCheck ==
    /\ spc = "check"
    /\ LET alive == workerThread # None /\ IsAlive(workerThread) IN
       IF SnapNeedsWorker(alive, snap.queued)
       THEN /\ spc' = "ensure"
            /\ snap' = [snap EXCEPT !.worker_running = alive]
       ELSE /\ spc' = "idle"
            /\ snap' = NoSnap
    /\ UNCHANGED <<storeVars, workerVars, callerVars, scanVars, adminVars, view>>

SnapEnsure ==
    /\ spc = "ensure"
    /\ EnsureWorkerRunning
    /\ spc' = "idle"
    /\ snap' = NoSnap
    /\ UNCHANGED <<storeVars, returned, retries, callerVars, scanVars, adminVars, view>>

\* ------------------------------------------------------------------ Next
EnqueueBy(t) ==
    \/ \E k \in Keys : EnqueueSelect(t, k.stage, k.page_id)
    \/ EnqueueInsert(t)
    \/ EnqueueEmit(t)
    \/ EnqueueEnsure(t)

Enqueue == \E t \in Threads : EnqueueBy(t)

WorkerStep(w) ==
    \/ ClaimSelect(w)
    \/ ClaimUpdate(w)
    \/ EmitStarted(w)
    \/ Dispatch(w)
    \/ HandlerBegin(w)
    \/ DetectRun(w)
    \/ DetectStore(w)
    \/ HandlerRevert(w)
    \/ FinalizeSuccess(w)
    \/ EmitCompleted(w)
    \/ FinalizeFailure(w)
    \/ EmitFailed(w)
    \/ WorkerExit(w)

Worker == \E w \in Workers : WorkerStep(w)

Snapshot == SnapQuery \/ SnapCheck \/ SnapEnsure

Next == Enqueue \/ Worker \/ Snapshot

Spec == Init /\ [][Next]_vars

\* The worker is a started thread and the poller re-runs the snapshot on a
\* fixed interval: both keep taking steps. Request threads may stop anywhere.
\* get_activity_snapshot read by read, next to a request thread and the
\* worker
NextSnap ==
    \/ EnqueueBy(1)
    \/ Worker
    \/ SnapRunning
    \/ SnapPreview
    \/ SnapCount
    \/ SnapCheck
    \/ SnapEnsure

SpecSnap == Init /\ [][NextSnap]_vars

SpecLive ==
    /\ Init
    /\ [][Next]_vars
    /\ \A w \in Workers : WF_vars(WorkerStep(w))
    /\ WF_vars(Snapshot)

\* ------------------------------------------- concurrent _claim_next_job
\* Several callers run _claim_next_job against one store; a caller that was
\* returned a job calls again, a caller that was returned None stops.
QueuedRow(i, status) ==
    [stage |-> "layout_detect", page_id |-> i, status |-> status,
     attempts |-> 0, error |-> "null", result |-> "null"]

InitClaim ==
    /\ InitCommon
    /\ \E n \in 0..MaxQueued :
         \E st \in [1..n -> {"queued", "completed"}] :
            jobs = [i \in 1..n |-> QueuedRow(i, st[i])]
    /\ pages = [p \in PageIds |-> PageRow(1, 1, "new", FALSE)]
    /\ layouts = [p \in PageIds |-> 0]
    /\ wpc = [w \in Workers |-> "claim_select"]

ClaimAgain(w) ==
    /\ wpc[w] = "emit_started"
    /\ wpc' = [wpc EXCEPT ![w] = "claim_select"]
    /\ wjob' = [wjob EXCEPT ![w] = NoJob]
    /\ UNCHANGED <<storeVars, workerThread, wout, returned, retries, callerVars, snapVars, scanVars, adminVars>>

NextClaim == \E w \in Workers : ClaimSelect(w) \/ ClaimUpdate(w) \/ ClaimAgain(w)

SpecClaim == InitClaim /\ [][NextClaim]_vars

\* -------------------------------------------------------- discover_images
\* The whole reconciliation runs on one connection: the first UPDATE opens the
\* transaction and get_connection commits it when the block ends. An
\* sqlite3.IntegrityError (rel_path and file_hash of pages are UNIQUE) leaves
\* the block without a commit, so a scan that raises changes no row.

\* grouped_paths[file_hash]
grouped_paths(fs, file_hash) == {p \in Paths : fs[p] = file_hash}

\* sorted(grouped_paths.keys()), as the set the loop walks in ascending order
GroupKeys(fs) == {fs[p] : p \in Paths} \ {NoFile}

PresentIds(pg) == {i \in DOMAIN pg : pg[i].present}

\* _fetch_pages_by_hash(conn).get(file_hash): the row's id, 0 for None
pages_by_hash(pg, file_hash) ==
    IF \E i \in PresentIds(pg) : pg[i].file_hash = file_hash
    THEN CHOOSE i \in PresentIds(pg) : pg[i].file_hash = file_hash
    ELSE 0

\* _fetch_pages_by_rel_path(conn).get(rel_path): the row's id, 0 for None
pages_by_rel_path(pg, rel_path) ==
    IF \E i \in PresentIds(pg) : pg[i].rel_path = rel_path
    THEN CHOOSE i \in PresentIds(pg) : pg[i].rel_path = rel_path
    ELSE 0

\* the UNIQUE constraints of pages(rel_path) and pages(file_hash)
PagesUnique(pg) ==
    \A i, j \in PresentIds(pg) :
        i # j => (pg[i].rel_path # pg[j].rel_path /\ pg[i].file_hash # pg[j].file_hash)

\* variant: rows that are already inactive stay as they are and active ones too
DeactivateNone(dp) == dp

\* UPDATE duplicate_files SET active = 0
DeactivateAll(dp) ==
    [p \in Paths |-> IF dp[p].present THEN [dp[p] EXCEPT !.active = FALSE] ELSE dp[p]]

\* variant: the largest path of the group is taken
CanonicalLast(rel_paths) == CHOOSE x \in rel_paths : \A y \in rel_paths : y <= x

\* rel_paths = sorted(grouped_paths[file_hash]); rel_paths[0]
canonical_rel_path(rel_paths) == SetMin(rel_paths)

\* cursor.lastrowid of an INSERT into pages (AUTOINCREMENT)
NextPageId(pg) == IF PresentIds(pg) = {} THEN 1 ELSE SetMin({i \in 1..(NumHashes + 1) : \A j \in PresentIds(pg) : j < i})

\* the upserts of the rows for rel_paths[1:]
UpsertDuplicates(dp, rel_paths, file_hash, page_id) ==
    [p \in Paths |->
        IF p \in rel_paths \ {canonical_rel_path(rel_paths)}
        THEN DuplicateRow(file_hash, page_id, TRUE)
        ELSE dp[p]]

\* one iteration of the loop over sorted(grouped_paths.keys()); acc is the
\* transaction so far, snapshot the rows fetched before the loop
ReconcileGroup(acc, snapshot, fs, file_hash) ==
    LET rel_paths == grouped_paths(fs, file_hash)
        canonical == canonical_rel_path(rel_paths)
        page_row == pages_by_hash(snapshot, file_hash)
        existing_path_row == pages_by_rel_path(snapshot, canonical)
        new_id == NextPageId(acc.pages)
        page_id == IF page_row # 0 THEN page_row
                   ELSE IF existing_path_row # 0 THEN existing_path_row
                   ELSE new_id
        pages1 == IF page_row # 0
                  THEN [acc.pages EXCEPT ![page_row].rel_path = canonical,
                                         ![page_row].is_missing = FALSE]
                  ELSE IF existing_path_row # 0
                  THEN [acc.pages EXCEPT ![existing_path_row].file_hash = file_hash,
                                         ![existing_path_row].is_missing = FALSE]
                  ELSE IF new_id \in DOMAIN acc.pages
                  THEN [acc.pages EXCEPT ![new_id] = PageRow(canonical, file_hash, "new", FALSE)]
                  ELSE acc.pages
        inserted == page_row = 0 /\ existing_path_row = 0
        accepted == /\ PagesUnique(pages1)
                    /\ inserted => new_id \in DOMAIN acc.pages
    IN  IF ~acc.ok THEN acc
        ELSE IF ~accepted THEN [acc EXCEPT !.ok = FALSE]
        ELSE [ok |-> TRUE,
              pages |-> pages1,
              dups |-> UpsertDuplicates(acc.dups, rel_paths, file_hash, page_id),
              seen_page_ids |-> acc.seen_page_ids \cup {page_id},
              new_pages |-> acc.new_pages + (IF inserted THEN 1 ELSE 0),
              updated_pages |-> acc.updated_pages + (IF inserted THEN 0 ELSE 1),
              duplicate_files |-> acc.duplicate_files + Cardinality(rel_paths) - 1]

RECURSIVE ReconcileFrom(_, _, _, _)
ReconcileFrom(acc, snapshot, fs, keys) ==
    IF keys = {} THEN acc
    ELSE LET file_hash == SetMin(keys) IN
         ReconcileFrom(ReconcileGroup(acc, snapshot, fs, file_hash), snapshot, fs,
                       keys \ {file_hash})

\* variant: pages the scan did not see are left as they are
MarkMissingNever(pg, seen_page_ids) == {}

\* variant: the UPDATE has no is_missing = 0 test, its rowcount includes the
\* Pages that were missing already
MarkMissingCountsAll(pg, seen_page_ids) ==
    {i \in PresentIds(pg) : i \notin seen_page_ids}

\* the rows of UPDATE pages SET is_missing = 1 WHERE id NOT IN (...) AND is_missing = 0
MarkMissing(pg, seen_page_ids) ==
    {i \in PresentIds(pg) : i \notin seen_page_ids /\ ~pg[i].is_missing}

\* variant: the rows are deleted
ApplyMissingDeletes(pg, marked) ==
    [i \in DOMAIN pg |-> IF i \in marked THEN NoPage ELSE pg[i]]

\* SET is_missing = 1 on the rows of that UPDATE
ApplyMissing(pg, marked) ==
    [i \in DOMAIN pg |-> IF i \in marked THEN [pg[i] EXCEPT !.is_missing = TRUE] ELSE pg[i]]

\* discover_images as a function of the store and the source directory
discover_images(pg, dp, fs) ==
    LET start == [ok |-> TRUE, pages |-> pg, dups |-> DeactivateAll(dp),
                  seen_page_ids |-> {}, new_pages |-> 0, updated_pages |-> 0,
                  duplicate_files |-> 0]
        acc == ReconcileFrom(start, pg, fs, GroupKeys(fs))
        marked == MarkMissing(acc.pages, acc.seen_page_ids)
    IN  IF ~acc.ok
        THEN [ok |-> FALSE, pages |-> pg, dups |-> dp,
              summary |-> [NoSummary EXCEPT !.outcome = "raised"]]
        ELSE [ok |-> TRUE,
              pages |-> ApplyMissing(acc.pages, marked),
              dups |-> acc.dups,
              summary |-> [outcome |-> "returned",
                           scanned_files |-> Cardinality({p \in Paths : fs[p] # NoFile}),
                           new_pages |-> acc.new_pages,
                           updated_pages |-> acc.updated_pages,
                           missing_marked |-> Cardinality(marked),
                           duplicate_files |-> acc.duplicate_files]]

\* main.list_duplicates: the active rows joined with their canonical page
list_duplicates(pg, dp) ==
    {[duplicate_rel_path |-> p, canonical_rel_path |-> pg[dp[p].canonical_page_id].rel_path] :
        p \in {q \in Paths : /\ dp[q].present /\ dp[q].active
                             /\ dp[q].canonical_page_id \in PresentIds(pg)}}

pipelineVars == <<jobs, events, workerVars, callerVars, snapVars>>

Scan ==
    /\ LET r == discover_images(pages, duplicate_files, files) IN
          /\ pages' = r.pages
          /\ duplicate_files' = r.dups
          /\ summary' = r.summary
          /\ scanned' = IF r.ok THEN files ELSE scanned
    /\ UNCHANGED <<files, pipelineVars, adminVars>>

\* the source directory changes between scans: a file is written ...
WriteFile(p, h) ==
    /\ files[p] # h
    /\ files' = [files EXCEPT ![p] = h]
    /\ UNCHANGED <<pages, duplicate_files, summary, scanned, pipelineVars, adminVars>>

\* ... or removed
RemoveFile(p) ==
    /\ files[p] # NoFile
    /\ files' = [files EXCEPT ![p] = NoFile]
    /\ UNCHANGED <<pages, duplicate_files, summary, scanned, pipelineVars, adminVars>>

\* detect_layouts_for_page run to its end for a page whose image is on disk
ManualDetect(i) ==
    /\ pages[i].present /\ ~pages[i].is_missing
    /\ files[pages[i].rel_path] # NoFile
    /\ pages[i].status # "layout_detected"
    /\ pages' = [pages EXCEPT ![i].status = "layout_detected"]
    /\ layouts' = [layouts EXCEPT ![i] = DetectedRows]
    /\ UNCHANGED <<files, duplicate_files, summary, scanned, pipelineVars, wpos, wipes>>

InitScan ==
    /\ InitCommon
    /\ jobs = <<>>
    /\ pages = [i \in ScanPageIds |-> NoPage]
    /\ layouts = [i \in ScanPageIds |-> 0]
    /\ wpc = [w \in Workers |-> "dead"]

NextScan ==
    \/ Scan
    \/ \E p \in Paths : \E h \in Hashes : WriteFile(p, h)
    \/ \E p \in Paths : RemoveFile(p)
    \/ \E i \in ScanPageIds : ManualDetect(i)

SpecScan == InitScan /\ [][NextScan]_vars

\* ------------------------------------------- the handler and the page row
\* One caller of enqueue_job and the worker, started from every row the
\* pages table can hold for page 1: no row, a missing Page, a Page in any
\* status.
PageStatuses == {"new", "layout_detecting", "layout_detected", "layout_reviewed"}

InitHandler ==
    /\ InitCommon
    /\ jobs = <<>>
    /\ \E row \in {NoPage} \cup {PageRow(1, 1, st, m) : st \in PageStatuses, m \in BOOLEAN} :
          /\ pages = [p \in PageIds |-> row]
          /\ layouts = [p \in PageIds |->
                          IF row.present /\ row.status \in {"layout_detected", "layout_reviewed"}
                          THEN DetectedRows ELSE 0]
    /\ wpc = [w \in Workers |-> "dead"]

NextHandler == EnqueueBy(1) \/ Worker

SpecHandler == InitHandler /\ [][NextHandler]_vars

\* ------------------------------------------------------- main.wipe_state
\* wipe_state(confirm = True, rescan = False): the wipe_started Event, the
\* transaction that empties every table and the id sequences, the
\* wipe_finished Event.
WipeStart ==
    /\ wpos = "idle"
    /\ wipes < MaxWipes
    /\ emit_event("wipe_started", "pipeline", NULL, 0)
    /\ wpos' = "delete"
    /\ UNCHANGED <<jobs, pages, workerVars, callerVars, snapVars, scanVars, layouts, wipes>>

WipeDelete ==
    /\ wpos = "delete"
    /\ events' = <<>>
    /\ jobs' = <<>>
    /\ duplicate_files' = [p \in Paths |-> NoDuplicate]
    /\ layouts' = [i \in DOMAIN layouts |-> 0]
    /\ pages' = [i \in DOMAIN pages |-> NoPage]
    /\ wpos' = "finish"
    /\ wipes' = wipes + 1
    /\ UNCHANGED <<workerVars, callerVars, snapVars, files, summary, scanned>>

WipeFinish ==
    /\ wpos = "finish"
    /\ emit_event("wipe_finished", "pipeline", NULL, 0)
    /\ wpos' = "idle"
    /\ UNCHANGED <<jobs, pages, workerVars, callerVars, snapVars, scanVars, layouts, wipes>>

Wipe == WipeStart \/ WipeDelete \/ WipeFinish

\* a request thread enqueuing layout detection of page 1, the worker and
\* wipe requests
NextWipe ==
    \/ EnqueueSelect(1, "layout_detect", 1)
    \/ EnqueueInsert(1)
    \/ EnqueueEmit(1)
    \/ EnqueueEnsure(1)
    \/ Worker
    \/ Wipe

SpecWipe == Init /\ [][NextWipe]_vars

\* ------------------------------------- layout detection next to a rescan
\* One caller of enqueue_job, the worker, and discover_images over a source
\* directory in which the image of page 1 comes and goes.
NextDetect ==
    \/ EnqueueBy(1)
    \/ Worker
    \/ Scan
    \/ WriteFile(1, 1)
    \/ RemoveFile(1)

SpecDetect == InitHandler /\ [][NextDetect]_vars

\* ------------------------------------------- layouts edited by the user
\* layouts.create_layout: one manual row, and the Page moves to layout_detected
CreateLayout(i) ==
    /\ pages[i].present /\ ~pages[i].is_missing
    /\ layouts[i] < MaxLayouts
    /\ layouts' = [layouts EXCEPT ![i] = @ + 1]
    /\ pages' = [pages EXCEPT ![i].status = "layout_detected"]
    /\ UNCHANGED <<files, duplicate_files, summary, scanned, pipelineVars, wpos, wipes>>

\* layouts.mark_layout_reviewed
MarkLayoutReviewed(i) ==
    /\ pages[i].present /\ ~pages[i].is_missing
    /\ layouts[i] > 0
    /\ pages[i].status # "layout_reviewed"
    /\ pages' = [pages EXCEPT ![i].status = "layout_reviewed"]
    /\ UNCHANGED <<files, duplicate_files, summary, scanned, pipelineVars, adminVars>>

\* a request thread enqueuing, the worker, and the user editing and
\* reviewing the layouts of a Page
NextManual ==
    \/ EnqueueBy(1)
    \/ Worker
    \/ \E i \in PageIds : CreateLayout(i)
    \/ \E i \in PageIds : MarkLayoutReviewed(i)

SpecManual == Init /\ [][NextManual]_vars

\* ------------------------------------------- store errors in the worker
\* A statement against the store raises in the worker thread (sqlite3.Error:
\* the database is locked past the timeout, the disk is full). The
\* job_started emit stands before the try statement of _worker_loop and the
\* except branch has no handling of its own, so from there the exception
\* leaves _worker_loop: the thread ends, the claimed row and the handle
\* _WORKER_THREAD stay as they are.
StoreErrorKills(w) ==
    /\ wpc[w] \in {"emit_started", "finalize_failure", "emit_failed"}
    /\ wpc' = [wpc EXCEPT ![w] = "dead"]
    /\ wjob' = [wjob EXCEPT ![w] = NoJob]
    /\ wout' = [wout EXCEPT ![w] = "none"]
    /\ UNCHANGED <<storeVars, workerThread, returned, retries, callerVars, snapVars, scanVars, adminVars>>

\* Inside the try statement the exception of _finalize_job_success or of the
\* job_completed emit is caught and the except branch runs with its text.
StoreErrorCaught(w) ==
    /\ wpc[w] \in {"finalize_success", "emit_completed"}
    /\ wout' = [wout EXCEPT ![w] = "error:raised"]
    /\ wpc' = [wpc EXCEPT ![w] = "finalize_failure"]
    /\ UNCHANGED <<storeVars, workerThread, wjob, returned, retries, callerVars, snapVars, scanVars, adminVars>>

\* a request thread, the worker and the store errors it can meet
NextFault ==
    \/ EnqueueBy(1)
    \/ Worker
    \/ \E w \in Workers : StoreErrorKills(w)
    \/ \E w \in Workers : StoreErrorCaught(w)

SpecFault == Init /\ [][NextFault]_vars

\* the same actors, started from a Page in status new
SpecInFlight == Init /\ [][NextDetect]_vars

\* ================================================================ claims
KeyOf(j) == [stage |-> j.stage, page_id |-> j.page_id]

ActiveRows(k) == {i \in JobIds : KeyOf(jobs[i]) = k /\ jobs[i].status \in {"queued", "running"}}

AllKeys == [stage : Stages, page_id : PageRefs]

LiveWorkers == {w \in Workers : wpc[w] # "dead"}

EventsOf(type, id) == {e \in 1..Len(events) : events[e].event_type = type /\ events[e].job_id = id}

\* C1: in every reachable state each key (stage, page_id), page_id NULL
\* included, has at most one Job row that is queued or running.
C1_OneActivePerKey == \A k \in AllKeys : Cardinality(ActiveRows(k)) <= 1

\* C2: an enqueue_job call goes on to insert one queued row and return true
\* only when no queued or running row with its key exists, and returns false
\* without inserting when one exists; so a call that repeats the key of a row
\* that is still queued or running returns false and adds no row.
C2_Step(t) ==
    /\ (pc[t] = "idle" /\ pc'[t] = "insert") => ActiveRows(key'[t]) = {}
    /\ (pc[t] = "idle" /\ ret'[t] = "false" /\ (ret[t] # "false" \/ key'[t] # key[t]))
          => (ActiveRows(key'[t]) # {} /\ jobs' = jobs /\ pc'[t] = "idle")
    /\ (pc[t] = "insert" /\ pc'[t] # "insert")
          => (Len(jobs') = Len(jobs) + 1 /\ jobs'[Len(jobs')].status = "queued"
              /\ KeyOf(jobs'[Len(jobs')]) = key[t])
    /\ (ret'[t] = "true" /\ ret[t] # "true") => pc[t] = "ensure"

C2_EnqueueTwice == [][\A t \in Threads : C2_Step(t)]_vars

C2_Witness ==
    \E t \in Threads :
        /\ pc[t] = "idle" /\ ret[t] = "false"
        /\ Cardinality(ActiveRows(key[t])) = 1
        /\ Cardinality({i \in JobIds : KeyOf(jobs[i]) = key[t]}) = 1
        /\ \E u \in Threads : pc[u] = "idle" /\ ret[u] = "true"

\* C3: under concurrent _claim_next_job calls no Job id is returned twice;
\* a conditional update that finds the row still queued makes it running and
\* returns it, one that affects no row changes nothing and selects again.
C3_NoDoubleReturn ==
    \A a, b \in 1..Len(returned) : a # b => returned[a] # returned[b]

C3_Step(w) ==
    (wpc[w] = "claim_update" /\ wpc'[w] # "claim_update") =>
        IF jobs[wjob[w].id].status = "queued"
        THEN /\ jobs'[wjob[w].id].status = "running"
             /\ wpc'[w] = "emit_started"
             /\ returned' = Append(returned, wjob[w].id)
        ELSE /\ jobs' = jobs
             /\ returned' = returned
             /\ wpc'[w] = "claim_select"

C3_ClaimExclusive == []C3_NoDoubleReturn /\ [][\A w \in Workers : C3_Step(w)]_vars

C3_Witness == retries > 0 /\ Len(returned) >= 2

\* C4: a Job row is created queued and its status only ever moves
\* queued -> running -> completed | failed; completed and failed never change
\* and no row returns to queued or running.
C4_Moves(a, b) ==
    \/ a = b
    \/ a = "queued" /\ b = "running"
    \/ a = "running" /\ b \in {"completed", "failed"}

C5_SingleWorker == Cardinality(LiveWorkers) <= 1

C5_Witness ==
    /\ Cardinality(LiveWorkers) = 1
    /\ \A t \in Threads : pc[t] = "idle" /\ ret[t] = "true"
    /\ returned = <<1>>
    /\ jobs[1].status = "running"

C7_QueuedFinishes ==
    \A i \in 1..MaxJobs :
        (i \in JobIds /\ jobs[i].status = "queued")
            ~> (i \in JobIds /\ jobs[i].status \in {"completed", "failed"})

C7_Witness ==
    /\ LiveWorkers = {}
    /\ \E i \in JobIds : jobs[i].status = "queued"
    /\ \A t \in Threads : pc[t] = "idle"

\* C8: a Job whose handler raised ends failed with an error text and exactly
\* one job_failed Event; the worker leaves the loop only after a claim found
\* no queued Job, so after a failure it is back at the claim.
C8_State ==
    /\ \A i \in JobIds : jobs[i].status = "failed" => jobs[i].error # "null"
    /\ \A i \in JobIds : Cardinality(EventsOf("job_failed", i)) <= 1
    /\ \A i \in JobIds :
          (jobs[i].status = "failed" /\ \A w \in Workers : wjob[w].id # i)
              => Cardinality(EventsOf("job_failed", i)) = 1
    /\ \A w \in Workers :
          (wout[w] = "error:raised" /\ wpc[w] = "emit_failed")
              => jobs[wjob[w].id].status = "failed"

C8_Step(w) ==
    /\ (wout[w] = "error:raised" /\ wpc[w] = "finalize_failure" /\ wpc'[w] # wpc[w])
          => (wpc'[w] = "emit_failed" /\ jobs'[wjob[w].id].status = "failed"
              /\ jobs'[wjob[w].id].error # "null")
    /\ (wpc[w] = "emit_failed" /\ wpc'[w] # wpc[w])
          => (wpc'[w] = "claim_select"
              /\ events' = Append(events, Event("job_failed", wjob[w].stage,
                                                 wjob[w].page_id, wjob[w].id)))
    /\ (wpc[w] # "exit" /\ wpc'[w] = "exit")
          => (wpc[w] = "claim_select" /\ QueuedIds = {})
    /\ (wpc[w] # "dead" /\ wpc'[w] = "dead") => wpc[w] = "exit"

C8_FailureIsolated == []C8_State /\ [][\A w \in Workers : C8_Step(w)]_vars

C8_Witness ==
    /\ Len(jobs) >= 2
    /\ jobs[1].status = "failed" /\ jobs[1].error = "error:raised"
    /\ jobs[2].status \in {"completed", "failed"}
    /\ returned = <<1, 2>>

\* C9: an enqueue_job call that finds a queued or running Job with its key
\* returns false and leaves every Job row, every Event, every Page and the
\* worker state as they were.
C9_Step(t) ==
    (pc[t] = "idle" /\ ActiveRows(key'[t]) # {}
       /\ (pc'[t] # pc[t] \/ ret'[t] # ret[t] \/ key'[t] # key[t]))
    => (/\ ret'[t] = "false"
        /\ pc'[t] = "idle"
        /\ UNCHANGED <<jobs, events, pages, workerThread, wpc, wjob, wout>>)

C9_FalseChangesNothing == [][\A t \in Threads : C9_Step(t)]_vars

C9_Witness ==
    \E t \in Threads :
        /\ pc[t] = "idle" /\ ret[t] = "false"
        /\ ActiveRows(key[t]) # {}
        /\ LiveWorkers = {}

\* C10 (as stated): after any enqueue_job call returns in a state where a Job
\* is queued, a worker thread is alive.
C10_Returns(t) ==
    \/ pc[t] = "ensure" /\ pc'[t] = "idle"
    \/ pc[t] = "idle" /\ pc'[t] = "idle" /\ ret'[t] = "false"
         /\ (ret[t] # "false" \/ key'[t] # key[t])

C10_WorkerAliveAfter == workerThread' # None /\ wpc'[workerThread'] # "dead"

C10_AnyReturnRearms ==
    [][\A t \in Threads :
         (C10_Returns(t) /\ \E i \in 1..Len(jobs') : jobs'[i].status = "queued")
            => C10_WorkerAliveAfter]_vars

\* C10 (amended): an enqueue_job call that inserted its Job returns with a
\* worker thread alive, found alive or started by the call.
C10_InsertRearms ==
    [][\A t \in Threads :
         (pc[t] = "ensure" /\ pc'[t] = "idle") => C10_WorkerAliveAfter]_vars

C10_Witness ==
    \E t \in Threads :
        /\ pc[t] = "idle" /\ ret[t] = "true"
        /\ workerThread # None /\ wpc[workerThread] = "claim_select"
        /\ returned = <<>>
        /\ events # <<>>

\* C11: in every reachable state each Job row has the Event of its state:
\* every row its job_queued Event, a running row its job_started Event, a
\* completed row its job_completed Event and a failed row its job_failed
\* Event.
QueuedEventsOf(k) ==
    {e \in 1..Len(events) : events[e].event_type = "job_queued"
                             /\ events[e].stage = k.stage /\ events[e].page_id = k.page_id}

RowsOf(k) == {i \in JobIds : KeyOf(jobs[i]) = k}

C11_Narrated ==
    /\ \A k \in AllKeys : Cardinality(QueuedEventsOf(k)) >= Cardinality(RowsOf(k))
    /\ \A i \in JobIds :
          /\ jobs[i].status = "running" => EventsOf("job_started", i) # {}
          /\ jobs[i].status = "completed" => EventsOf("job_completed", i) # {}
          /\ jobs[i].status = "failed" => EventsOf("job_failed", i) # {}

\* a state a completed discover_images call left, the source directory as
\* the call observed it
AfterScan == summary.outcome = "returned" /\ scanned = files

PagesWithHash(h) == {i \in PresentIds(pages) : pages[i].file_hash = h}

\* C12: after discover_images every group of files with identical content
\* has exactly one Page, whose rel_path is the smallest path of the group,
\* and every other path of the group has an active DuplicateFile row that
\* references that Page.
C12_GroupHasPage(h) ==
    /\ Cardinality(PagesWithHash(h)) = 1
    /\ \A i \in PagesWithHash(h) :
          /\ pages[i].rel_path = SetMin(grouped_paths(files, h))
          /\ \A q \in grouped_paths(files, h) \ {pages[i].rel_path} :
                /\ duplicate_files[q].present
                /\ duplicate_files[q].active
                /\ duplicate_files[q].canonical_page_id = i

C12_ContentIdentity == AfterScan => \A h \in GroupKeys(files) : C12_GroupHasPage(h)

ActiveDuplicates(dp) == {p \in Paths : dp[p].present /\ dp[p].active}

PageIdentity(pg) ==
    [i \in DOMAIN pg |-> <<pg[i].present, pg[i].rel_path, pg[i].file_hash, pg[i].is_missing>>]

\* C13: a discover_images call that follows a completed one with no change of
\* the source directory in between reports new_pages = 0 and
\* updated_pages = 0 and leaves the active DuplicateFile rows and every
\* Page's id, rel_path, file_hash and is_missing as they were.
C13_Rescan ==
    /\ summary'.outcome = "returned"
    /\ summary'.new_pages = 0
    /\ summary'.updated_pages = 0
    /\ ActiveDuplicates(duplicate_files') = ActiveDuplicates(duplicate_files)
    /\ PageIdentity(pages') = PageIdentity(pages)

C13_IdempotentRescan == [][(AfterScan /\ Scan) => C13_Rescan]_vars

\* the same without the counters: the rows a second scan leaves
C13_RescanKeepsRows ==
    [][(AfterScan /\ Scan) =>
          /\ ActiveDuplicates(duplicate_files') = ActiveDuplicates(duplicate_files)
          /\ PageIdentity(pages') = PageIdentity(pages)]_vars

\* C14: after a completed scan every active DuplicateFile row references a
\* Page whose file_hash is the row's file_hash.
C14_ActiveDuplicateHash ==
    AfterScan =>
        \A p \in ActiveDuplicates(duplicate_files) :
            /\ duplicate_files[p].canonical_page_id \in PresentIds(pages)
            /\ pages[duplicate_files[p].canonical_page_id].file_hash = duplicate_files[p].file_hash

\* a step that is a discover_images call that returned
ScanReturns == summary'.outcome = "returned" /\ files' = files /\ Scan

\* the scan observed a path for the content of Page i
Observed(i) == \E p \in Paths : files[p] = pages[i].file_hash

C15_MissingIffUnobserved ==
    AfterScan => \A i \in PresentIds(pages) : pages[i].is_missing <=> ~Observed(i)

C15_RowsKept == ScanReturns => PresentIds(pages) \subseteq PresentIds(pages')

C15_HashReappears ==
    ScanReturns =>
        \A i \in PresentIds(pages) :
            (pages[i].is_missing /\ pages[i].file_hash \in GroupKeys(files))
                => ~pages'[i].is_missing

C15_PathReappears ==
    ScanReturns =>
        \A i \in PresentIds(pages) :
            (pages[i].is_missing /\ files[pages[i].rel_path] # NoFile)
                => ~pages'[i].is_missing

\* the path of Page i is the first path of a content no Page holds
C15_PathMatched(i) ==
    LET h == files[pages[i].rel_path] IN
    /\ h # NoFile
    /\ pages[i].rel_path = SetMin(grouped_paths(files, h))
    /\ pages_by_hash(pages, h) = 0

C15_PathRecovered ==
    ScanReturns =>
        \A i \in PresentIds(pages) :
            (pages[i].is_missing /\ C15_PathMatched(i)) => ~pages'[i].is_missing

\* C15 (as stated): after a completed scan a Page is missing exactly when the
\* scan observed no path for its content, its row is kept, and a missing
\* Page whose hash or path is observed again has is_missing cleared.
C15_Disappearance ==
    /\ []C15_MissingIffUnobserved
    /\ [][C15_RowsKept /\ C15_HashReappears /\ C15_PathReappears]_vars

\* C15 (amended): the same, a missing Page being cleared when its hash is
\* observed again or when its rel_path is the first path of a content that
\* no Page holds.
C15_MissingTracksContent ==
    /\ []C15_MissingIffUnobserved
    /\ [][C15_RowsKept /\ C15_HashReappears /\ C15_PathRecovered]_vars

C15_Witness ==
    /\ AfterScan
    /\ summary.missing_marked = 1
    /\ \E i \in PresentIds(pages) : pages[i].is_missing /\ files[pages[i].rel_path] = NoFile
    /\ \E i \in PresentIds(pages) : ~pages[i].is_missing

DuplicatePaths(dp) == {p \in Paths : dp[p].present}

\* C16: across scans and changes of the source directory no Page row and no
\* DuplicateFile row is deleted: the Page ids and the DuplicateFile rel_paths
\* only grow.
C16_NeverDeletes ==
    [][/\ PresentIds(pages) \subseteq PresentIds(pages')
       /\ DuplicatePaths(duplicate_files) \subseteq DuplicatePaths(duplicate_files')]_vars

C16_Witness ==
    /\ AfterScan
    /\ \E i \in PresentIds(pages) : pages[i].is_missing
    /\ \E p \in DuplicatePaths(duplicate_files) : ~duplicate_files[p].active

\* the file of Page i has left the Page's path and its content is observed
\* at another path
C17_Moved(i) ==
    /\ pages[i].file_hash \in GroupKeys(files)
    /\ files[pages[i].rel_path] = NoFile

\* C17: when the file of a Page is moved to a new path with unchanged bytes,
\* the next scan keeps the Page's id, content and status, sets its rel_path
\* to the smallest path that holds the content, creates no other Page for
\* the content and does not mark it missing.
C17_Follows(i) ==
    LET h == pages[i].file_hash IN
    /\ pages'[i].present
    /\ pages'[i].file_hash = h
    /\ pages'[i].status = pages[i].status
    /\ pages'[i].rel_path = SetMin(grouped_paths(files, h))
    /\ ~pages'[i].is_missing
    /\ {j \in PresentIds(pages') : pages'[j].file_hash = h} = {i}

C17_IdentityFollowsContent ==
    [][(files' = files /\ Scan) =>
          \A i \in PresentIds(pages) : C17_Moved(i) => C17_Follows(i)]_vars

\* the paths a scan of the source directory finds that are not the first of
\* their content
NonCanonical(fs) ==
    {p \in Paths : fs[p] # NoFile /\ p # SetMin(grouped_paths(fs, fs[p]))}

\* C18: after a completed scan the active DuplicateFile rows are exactly the
\* non-canonical paths that scan observed; rows of other paths are inactive.
C18_ActiveAreObserved ==
    AfterScan => ActiveDuplicates(duplicate_files) = NonCanonical(files)

C18_Witness ==
    /\ AfterScan
    /\ ActiveDuplicates(duplicate_files) # {}
    /\ DuplicatePaths(duplicate_files) \ ActiveDuplicates(duplicate_files) # {}

\* C19: a first scan over an empty store reports scanned_files = files,
\* new_pages = distinct contents, duplicate_files = their difference,
\* updated_pages = 0 and missing_marked = 0, and the listing of active
\* duplicates pairs each duplicate path with the rel_path of its content's
\* Page, the smallest path of the content.
EmptyStore == PresentIds(pages) = {} /\ DuplicatePaths(duplicate_files) = {}

C19_Summary ==
    LET n == Cardinality({p \in Paths : files[p] # NoFile})
        c == Cardinality(GroupKeys(files))
    IN  /\ summary'.outcome = "returned"
        /\ summary'.scanned_files = n
        /\ summary'.new_pages = c
        /\ summary'.duplicate_files = n - c
        /\ summary'.updated_pages = 0
        /\ summary'.missing_marked = 0
        /\ list_duplicates(pages', duplicate_files') =
              {[duplicate_rel_path |-> p,
                canonical_rel_path |-> SetMin(grouped_paths(files, files[p]))] :
                  p \in NonCanonical(files)}

C19_FirstScan == [][(EmptyStore /\ files' = files /\ Scan) => C19_Summary]_vars

\* a.png and dup/a-copy.png with equal bytes, b.jpg with other bytes: paths
\* 1, 3 and 2 in sorted order
C19_Witness ==
    /\ AfterScan
    /\ files[1] # NoFile /\ files[3] = files[1]
    /\ files[2] # NoFile /\ files[2] # files[1]
    /\ summary = [outcome |-> "returned", scanned_files |-> 3, new_pages |-> 2,
                  updated_pages |-> 0, missing_marked |-> 0, duplicate_files |-> 1]
    /\ list_duplicates(pages, duplicate_files) =
          {[duplicate_rel_path |-> 3, canonical_rel_path |-> 1]}

\* the Page of a layout_detect job does not exist or is marked missing
C20_NoPageFor(page_id) ==
    page_id # NULL /\ (~pages[page_id].present \/ pages[page_id].is_missing)

Skipped == {"skipped:page is missing"} \cup {SkipReason(st) : st \in PageStatuses}

\* C20: when the layout_detect handler runs for a page id whose Page does not
\* exist or is marked missing, it returns a skipped result and changes no
\* Page, and the Job ends completed with that result, not failed.
C20_Step(w) ==
    (wpc[w] = "handler" /\ wpc'[w] # "handler" /\ C20_NoPageFor(wjob[w].page_id))
        => (wout'[w] \in Skipped /\ wpc'[w] = "finalize_success" /\ pages' = pages)

C20_Ends ==
    \A i \in JobIds :
        (jobs[i].stage = "layout_detect" /\ C20_NoPageFor(jobs[i].page_id)
           /\ jobs[i].status \in {"completed", "failed"})
        => (jobs[i].status = "completed" /\ jobs[i].result \in Skipped)

C20_SkippedNotFailed == []C20_Ends /\ [][\A w \in Workers : C20_Step(w)]_vars

\* the part that holds: a Page that is marked missing
C20_MissingStep(w) ==
    (wpc[w] = "handler" /\ wpc'[w] # "handler" /\ wjob[w].page_id # NULL
       /\ pages[wjob[w].page_id].present /\ pages[wjob[w].page_id].is_missing)
        => (wout'[w] \in Skipped /\ wpc'[w] = "finalize_success" /\ pages' = pages)

C20_MissingSkipped == [][\A w \in Workers : C20_MissingStep(w)]_vars

\* what enqueue_layout_detection_for_new_pages selects
Eligible(pg, page_id) ==
    pg[page_id].present /\ ~pg[page_id].is_missing /\ pg[page_id].status = "new"

\* C21: when the detection delegate raises during a layout_detect job, the
\* handler re-raises after putting the Page back to status new if the Page is
\* not marked missing at that moment, which makes the Page eligible for
\* enqueue_layout_detection_for_new_pages again; a Page that a rescan marked
\* missing meanwhile is left alone; the Job ends failed with a non-null error.
C21_Step(w) ==
    /\ (wpc[w] = "detect" /\ wpc'[w] \notin {"detect", "detect_store"})
          => (wpc'[w] = "revert" /\ pages' = pages)
    /\ (wpc[w] = "revert" /\ wpc'[w] # "revert")
          => LET page_id == wjob[w].page_id IN
             /\ wpc'[w] = "finalize_failure"
             /\ wout'[w] = "error:raised"
             /\ (pages[page_id].present /\ ~pages[page_id].is_missing)
                   => Eligible(pages', page_id)
             /\ (~pages[page_id].present \/ pages[page_id].is_missing)
                   => pages' = pages
    /\ (wpc[w] = "finalize_failure" /\ wpc'[w] # "finalize_failure")
          => /\ wpc'[w] = "emit_failed"
             /\ jobs'[wjob[w].id].status = "failed"
             /\ jobs'[wjob[w].id].error = wout[w]
             /\ jobs'[wjob[w].id].error # "null"

C21_DelegateFailureReverts == [][\A w \in Workers : C21_Step(w)]_vars

\* no rescan has run, so the Page of the failed Job was there all along and
\* the failure is the delegate's
C21_Witness ==
    /\ summary.outcome = "none"
    /\ Len(jobs) >= 1
    /\ jobs[1].page_id = 1 /\ jobs[1].stage = "layout_detect"
    /\ jobs[1].status = "failed" /\ jobs[1].error = "error:raised"
    /\ Eligible(pages, 1)
    /\ \E n \in DOMAIN events : events[n].event_type = "job_failed" /\ events[n].job_id = 1

\* C22: a layout_detect job on an existing, non-missing Page with status new
\* or layout_detecting calls the delegate; when the delegate succeeds the
\* Page's status is layout_detected, its layouts are the detected ones, and
\* the Job ends completed with the delegate's result.
C22_Step(w) ==
    LET page_id == wjob[w].page_id IN
    /\ (wpc[w] = "handler" /\ wpc'[w] # "handler" /\ page_id # NULL
          /\ pages[page_id].present /\ ~pages[page_id].is_missing
          /\ pages[page_id].status \in {"new", "layout_detecting"})
          => wpc'[w] = "detect"
    /\ (wpc[w] = "detect_store" /\ wpc'[w] # "detect_store")
          => /\ wpc'[w] = "finalize_success"
             /\ wout'[w] = "result:created"
             /\ pages'[page_id].status = "layout_detected"
             /\ layouts'[page_id] = DetectedRows
    /\ (wpc[w] = "finalize_success" /\ wpc'[w] # "finalize_success")
          => /\ jobs'[wjob[w].id].status = "completed"
             /\ jobs'[wjob[w].id].result = wout[w]

C22_State ==
    \A i \in JobIds :
        jobs[i].result = "result:created"
            => /\ jobs[i].status = "completed"
               /\ pages[jobs[i].page_id].status = "layout_detected"
               /\ layouts[jobs[i].page_id] = DetectedRows

C22_DetectionSucceeds == []C22_State /\ [][\A w \in Workers : C22_Step(w)]_vars

C22_Witness ==
    /\ Len(jobs) >= 1
    /\ jobs[1].page_id = 1 /\ jobs[1].stage = "layout_detect"
    /\ jobs[1].status = "completed" /\ jobs[1].result = "result:created"
    /\ pages[1].present /\ pages[1].status = "layout_detected"
    /\ \E n \in DOMAIN events : events[n].event_type = "job_completed" /\ events[n].job_id = 1

\* C23: the worker runs the handler at most once per Job row: a row is
\* claimed at most once, a claimed row never goes back to queued, the handler
\* is entered only after a claim, and attempts is 0 while the row is queued
\* and 1 from the claim on. Running the work again takes a new row.
C23_State ==
    /\ \A i \in JobIds : jobs[i].attempts = (IF jobs[i].status = "queued" THEN 0 ELSE 1)
    /\ \A a, b \in DOMAIN returned : a # b => returned[a] # returned[b]
    /\ \A i \in JobIds : Cardinality(EventsOf("job_started", i)) <= 1
    /\ \A w \in Workers :
          wpc[w] \in {"emit_started", "dispatch", "handler", "detect", "detect_store", "revert"}
              => /\ returned # <<>>
                 /\ returned[Len(returned)] = wjob[w].id
                 /\ jobs[wjob[w].id].status = "running"

C23_Step ==
    /\ \A i \in JobIds : jobs[i].status # "queued" => jobs'[i].status # "queued"
    /\ \A i \in JobIds : jobs'[i].attempts >= jobs[i].attempts
    /\ \A w \in Workers :
          (wpc'[w] = "handler" /\ wpc[w] # "handler") => wpc[w] = "dispatch"
    /\ \A w \in Workers :
          (wpc'[w] = "dispatch" /\ wpc[w] # "dispatch") => wpc[w] = "emit_started"
    /\ \A w \in Workers :
          (wpc'[w] = "emit_started" /\ wpc[w] # "emit_started")
              => (wpc[w] = "claim_update" /\ returned' = Append(returned, wjob[w].id))
    /\ Len(returned') >= Len(returned)

C23_NoAutomaticRetry == []C23_State /\ [][C23_Step]_vars

\* a failed Job and the fresh row a later enqueue_job call made for its key
C23_Witness ==
    /\ Len(jobs) = 2
    /\ KeyOf(jobs[1]) = KeyOf(jobs[2])
    /\ jobs[1].status = "failed" /\ jobs[1].attempts = 1
    /\ jobs[2].status = "queued" /\ jobs[2].attempts = 0
    /\ returned = <<1>>

\* the transaction of wipe_state that empties the tables
WipeCommits == wpos = "delete" /\ wpos' = "finish"

\* C24: Event rows are append-only: every step other than the delete
\* transaction of the full-state wipe keeps every Event row as it was and at
\* most adds rows at the end, whichever of the emitters (enqueue_job, the
\* worker, wipe_state) takes it; the ids of the rows grow strictly in append
\* order.
C24_Step ==
    ~WipeCommits
        => /\ Len(events') \in {Len(events), Len(events) + 1}
           /\ \A n \in DOMAIN events : events'[n] = events[n]

C24_State ==
    \A a, b \in DOMAIN events : a < b => events[a].id < events[b].id

C24_AppendOnly == []C24_State /\ [][C24_Step]_vars

\* rows written by the worker and by a wipe after the wipe emptied the table
C24_Witness ==
    /\ wipes = 1
    /\ Len(events) >= 3
    /\ \E n \in DOMAIN events : events[n].event_type = "wipe_finished"
    /\ \E n \in DOMAIN events : events[n].event_type = "job_started"

\* C25: get_activity_snapshot counts the queued Jobs, then looks at the
\* worker handle: when it counted at least one queued Job and finds no worker
\* thread alive it asks for a worker, and the request starts one unless
\* another caller started one in between; when it counted no queued Job, or
\* finds the worker alive, it returns without touching the worker.
C25_Step ==
    LET alive == workerThread # None /\ IsAlive(workerThread) IN
    /\ (spc = "idle" /\ spc' # "idle")
          => (spc' = "check" /\ snap'.queued = Cardinality(QueuedIds)
              /\ workerThread' = workerThread /\ wpc' = wpc)
    /\ (spc = "check" /\ spc' # "check")
          => /\ (snap.queued > 0 /\ ~alive) => spc' = "ensure"
             /\ (snap.queued = 0 \/ alive) => spc' = "idle"
             /\ workerThread' = workerThread /\ wpc' = wpc
    /\ (spc = "ensure" /\ spc' # "ensure")
          => /\ spc' = "idle"
             /\ LiveWorkers = {}
                   => /\ workerThread' # None
                      /\ wpc'[workerThread'] = "claim_select"
                      /\ \A w \in Workers : w # workerThread' => wpc'[w] = wpc[w]
             /\ LiveWorkers # {} => (workerThread' = workerThread /\ wpc' = wpc)

C25_State == spc = "ensure" => (snap.queued > 0 /\ ~snap.worker_running)

C25_SnapshotProbe == []C25_State /\ [][C25_Step]_vars

\* the snapshot counted a queued Job, found no worker, and no other caller
\* is about to start one
C25_Witness ==
    /\ spc = "ensure"
    /\ LiveWorkers = {}
    /\ QueuedIds # {}
    /\ \A t \in Threads : pc[t] = "idle"

InHandler == {"handler", "detect", "detect_store", "revert"}

\* C26: a claimed Job whose stage has no registered handler ends failed with
\* the "no handler" error text and one job_failed Event; no handler code runs
\* for it, no Page or layout changes, and the worker goes on to the next
\* claim.
C26_Step(w) ==
    /\ (wpc[w] = "dispatch" /\ wpc'[w] # "dispatch" /\ wjob[w].stage \notin HANDLERS)
          => /\ wpc'[w] = "finalize_failure"
             /\ wout'[w] = "error:no handler"
             /\ pages' = pages /\ layouts' = layouts
    /\ (wpc[w] = "finalize_failure" /\ wpc'[w] # "finalize_failure"
          /\ wout[w] = "error:no handler")
          => /\ wpc'[w] = "emit_failed"
             /\ jobs'[wjob[w].id].status = "failed"
             /\ jobs'[wjob[w].id].error = "error:no handler"
    /\ (wpc[w] = "emit_failed" /\ wpc'[w] # "emit_failed" /\ wout[w] = "error:no handler")
          => /\ wpc'[w] = "claim_select"
             /\ events' = Append(events, Event("job_failed", wjob[w].stage,
                                                wjob[w].page_id, wjob[w].id))

C26_State ==
    /\ \A w \in Workers : wpc[w] \in InHandler => wjob[w].stage \in HANDLERS
    /\ \A i \in JobIds :
          (jobs[i].stage \notin HANDLERS /\ jobs[i].status \notin {"queued", "running"})
              => /\ jobs[i].status = "failed"
                 /\ jobs[i].error = "error:no handler"
                 /\ jobs[i].result = "null"
    /\ \A i \in JobIds :
          (jobs[i].stage \notin HANDLERS /\ jobs[i].status = "failed"
             /\ \A w \in Workers : wjob[w].id # i)
              => Cardinality(EventsOf("job_failed", i)) = 1

C26_NoHandlerFails == []C26_State /\ [][\A w \in Workers : C26_Step(w)]_vars

C26_Witness ==
    /\ Len(jobs) = 2
    /\ jobs[1].stage \notin HANDLERS
    /\ jobs[1].status = "failed" /\ jobs[1].error = "error:no handler"
    /\ Cardinality(EventsOf("job_failed", 1)) = 1
    /\ jobs[2].status \in {"completed", "failed"}
    /\ returned = <<1, 2>>

\* what a handler that returned normally hands to the worker
Returned == {"result:created"} \cup Skipped

\* C27: when a handler returns normally the worker stores status completed
\* with the returned result and no error, then appends one job_completed
\* Event and goes on; a Job with a stored result is completed, never failed,
\* and has no job_failed Event.
C27_Step(w) ==
    /\ (wpc[w] \in InHandler /\ wpc'[w] = "finalize_success") => wout'[w] \in Returned
    /\ (wpc[w] = "finalize_success" /\ wpc'[w] # "finalize_success")
          => /\ wout[w] \in Returned
             /\ wpc'[w] = "emit_completed"
             /\ jobs'[wjob[w].id].status = "completed"
             /\ jobs'[wjob[w].id].result = wout[w]
             /\ jobs'[wjob[w].id].error = "null"
    /\ (wpc[w] = "emit_completed" /\ wpc'[w] # "emit_completed")
          => /\ wpc'[w] = "claim_select"
             /\ events' = Append(events, Event("job_completed", wjob[w].stage,
                                                wjob[w].page_id, wjob[w].id))

C27_State ==
    /\ \A i \in JobIds :
          jobs[i].status = "completed"
              => /\ jobs[i].result \in Returned
                 /\ jobs[i].error = "null"
                 /\ Cardinality(EventsOf("job_completed", i)) <= 1
                 /\ EventsOf("job_failed", i) = {}
    /\ \A i \in JobIds :
          (jobs[i].status = "completed" /\ \A w \in Workers : wjob[w].id # i)
              => Cardinality(EventsOf("job_completed", i)) = 1
    /\ \A i \in JobIds : jobs[i].result # "null" => jobs[i].status = "completed"
    /\ \A i \in JobIds : jobs[i].status = "failed" => EventsOf("job_completed", i) = {}

Detectable == {"new", "layout_detecting"}

\* C28: when the layout_detect handler runs for a Page whose status is
\* outside {new, layout_detecting} it returns a skipped result without calling
\* the delegate and leaves every Page and every layout as it was; for a Page
\* that is not marked missing the reason is the one that names that status,
\* a different reason for each status; the Job ends completed with that
\* result.
C28_Step(w) ==
    LET page_id == wjob[w].page_id IN
    /\ (wpc[w] = "handler" /\ wpc'[w] # "handler" /\ page_id # NULL
          /\ pages[page_id].present /\ pages[page_id].status \notin Detectable)
          => /\ wpc'[w] = "finalize_success"
             /\ wout'[w] \in Skipped
             /\ ~pages[page_id].is_missing => wout'[w] = SkipReason(pages[page_id].status)
             /\ pages' = pages
             /\ layouts' = layouts
    /\ (wpc[w] = "finalize_success" /\ wpc'[w] # "finalize_success" /\ wout[w] \in Skipped)
          => /\ jobs'[wjob[w].id].status = "completed"
             /\ jobs'[wjob[w].id].result = wout[w]
             /\ pages' = pages
             /\ layouts' = layouts

C28_State ==
    /\ \A a, b \in PageStatuses \ Detectable : a # b => SkipReason(a) # SkipReason(b)
    /\ \A a \in PageStatuses \ Detectable : SkipReason(a) # "skipped:page is missing"
    /\ \A w \in Workers :
          (wpc[w] \in {"detect", "detect_store"} /\ pages[wjob[w].page_id].present)
              => pages[wjob[w].page_id].status \in Detectable
    /\ \A i \in JobIds : \A st \in PageStatuses \ Detectable :
          jobs[i].result = SkipReason(st)
              => /\ jobs[i].status = "completed"
                 /\ pages[jobs[i].page_id].status = st
                 /\ layouts[jobs[i].page_id] = DetectedRows

C28_StatusSkip == []C28_State /\ [][\A w \in Workers : C28_Step(w)]_vars

C28_Witness ==
    /\ Len(jobs) >= 1
    /\ jobs[1].page_id = 1
    /\ jobs[1].status = "completed"
    /\ jobs[1].result = "skipped:page status is layout_reviewed"
    /\ pages[1].present /\ ~pages[1].is_missing /\ pages[1].status = "layout_reviewed"
    /\ layouts[1] = DetectedRows
    /\ Cardinality(EventsOf("job_completed", 1)) = 1

\* C29: _claim_next_job picks the queued Job with the smallest id and moves
\* only that one to running: no Job goes from queued to running while a Job
\* with a smaller id is queued, so the Jobs the single worker starts have
\* ascending ids; when no Job is queued the call returns none and leaves
\* every row as it was, and the worker goes to its exit.
C29_Step ==
    /\ \A i \in JobIds :
          (jobs[i].status = "queued" /\ jobs'[i].status = "running")
              => /\ \A j \in JobIds : j < i => jobs[j].status # "queued"
                 /\ \A j \in JobIds : j # i => jobs'[j] = jobs[j]
                 /\ returned' = Append(returned, i)
    /\ \A w \in Workers :
          (wpc[w] = "claim_select" /\ wpc'[w] # "claim_select")
              => /\ storeVars' = storeVars
                 /\ returned' = returned
                 /\ IF \E i \in JobIds : jobs[i].status = "queued"
                    THEN /\ wpc'[w] = "claim_update"
                         /\ jobs[wjob'[w].id].status = "queued"
                         /\ \A j \in JobIds :
                               jobs[j].status = "queued" => wjob'[w].id <= j
                    ELSE /\ wpc'[w] = "exit"
                         /\ wjob'[w] = NoJob

C29_State == \A a, b \in DOMAIN returned : a < b => returned[a] < returned[b]

C29_OldestFirst == []C29_State /\ [][C29_Step]_vars

\* two Jobs are queued and the claim has picked the first
C29_Witness ==
    /\ Len(jobs) = 2
    /\ jobs[1].status = "queued" /\ jobs[2].status = "queued"
    /\ \E w \in Workers : wpc[w] = "claim_update" /\ wjob[w].id = 1

\* C30: the worker does not poll: a claim that finds no queued Job sends it
\* to its exit, where it empties the worker handle and stops; as enqueue_job
\* is called finitely often and every handler returns or raises, from some
\* point on no worker thread is alive and the handle is empty.
C30_Step(w) ==
    /\ (wpc[w] = "claim_select" /\ wpc'[w] # "claim_select" /\ QueuedIds = {})
          => wpc'[w] = "exit"
    /\ (wpc[w] = "exit" /\ wpc'[w] # "exit")
          => (wpc'[w] = "dead" /\ workerThread' = None /\ storeVars' = storeVars)
    /\ (wpc[w] # "dead" /\ wpc'[w] = "dead") => wpc[w] = "exit"

C30_Stopped == LiveWorkers = {} /\ workerThread = None

C30_WorkerTerminates == <>[]C30_Stopped /\ [][\A w \in Workers : C30_Step(w)]_vars

\* every Job the bound allows was enqueued and run, and the worker is gone
C30_Witness ==
    /\ C30_Stopped
    /\ Len(jobs) = MaxJobs
    /\ \A i \in JobIds : jobs[i].status \in {"completed", "failed"}
    /\ Len(returned) = MaxJobs

Min(a, b) == IF a <= b THEN a ELSE b

\* the reads of a get_activity_snapshot call are complete
SnapRead == spc = "check"

\* C31: the result of one get_activity_snapshot call describes one store
\* state: queued.total is the sum of queued.by_stage, queued.preview holds
\* min(15, queued.total) Job ids in ascending order, and the in_progress Job
\* is not in the preview.
C31_PointInTime ==
    SnapRead
        => /\ snap.queued = SumOver(view.by_stage, Stages)
           /\ Len(view.preview) = Min(PreviewLimit, snap.queued)
           /\ \A a, b \in DOMAIN view.preview : a < b => view.preview[a] < view.preview[b]
           /\ \A n \in DOMAIN view.preview : view.preview[n] # view.in_progress

\* the parts that hold whatever runs between the reads
C31_PartsThatHold ==
    SnapRead
        => /\ snap.queued = SumOver(view.by_stage, Stages)
           /\ \A a, b \in DOMAIN view.preview : a < b => view.preview[a] < view.preview[b]
           /\ \A n \in DOMAIN view.preview : view.preview[n] # view.in_progress

\* C32: there is no lost wakeup between enqueue_job and the worker's exit:
\* no reachable state has a queued Job while no worker thread is alive and no
\* enqueue_job call is in progress.
C32_NoLostWakeup ==
    ~ /\ \E i \in JobIds : jobs[i].status = "queued"
      /\ \A w \in Workers : wpc[w] = "dead"
      /\ \A t \in Threads : pc[t] = "idle"

\* the Events that end the story of Job i
FinalEventsOf(i) == EventsOf("job_completed", i) \cup EventsOf("job_failed", i)

\* the job_queued Event of Job i has been written before Event s: as many
\* job_queued Events of its key precede s as rows of that key go up to i
C33_QueuedBefore(i, s) ==
    Cardinality({q \in QueuedEventsOf(KeyOf(jobs[i])) : q < s})
        >= Cardinality({j \in RowsOf(KeyOf(jobs[i])) : j <= i})

C33_StartedBeforeFinal(i) ==
    \A f \in FinalEventsOf(i) : \E s \in EventsOf("job_started", i) : s < f

\* C33: the Events of every Job are in lifecycle order in the log: job_queued
\* before job_started, job_started before job_completed or job_failed.
C33_LifecycleOrder ==
    \A i \in JobIds :
        /\ \A s \in EventsOf("job_started", i) : C33_QueuedBefore(i, s)
        /\ C33_StartedBeforeFinal(i)

\* the part the worker alone decides
C33_WorkerOrder == \A i \in JobIds : C33_StartedBeforeFinal(i)

ActiveDetectJobs(page_id) ==
    {i \in JobIds : jobs[i].stage = "layout_detect" /\ jobs[i].page_id = page_id
                    /\ jobs[i].status \in {"queued", "running"}}

\* C34: no Page is left in status layout_detecting: a Page with that status
\* has a layout_detect Job that is queued or running, also when a scan marks
\* the Page missing during the detection and the delegate then fails.
C34_NoneStranded ==
    \A p \in PageIds :
        (pages[p].present /\ pages[p].status = "layout_detecting")
            => ActiveDetectJobs(p) # {}

\* C35: the failure path of the layout_detect handler undoes only its own
\* mark: when another actor has set the Page to layout_detected or
\* layout_reviewed while the job was in flight and the delegate fails, the
\* Page keeps that status.
C35_Step(w) ==
    (wpc[w] = "revert" /\ wpc'[w] # "revert"
       /\ pages[wjob[w].page_id].present
       /\ pages[wjob[w].page_id].status \in {"layout_detected", "layout_reviewed"})
        => pages'[wjob[w].page_id].status = pages[wjob[w].page_id].status

C35_KeepsOthersStatus == [][\A w \in Workers : C35_Step(w)]_vars

\* C36: discover_images completes and commits whatever the source directory
\* has become since the last scan: it never ends in a uniqueness conflict,
\* and rel_path and file_hash are unique across the Pages.
C36_ScanNeverAborts ==
    /\ summary.outcome # "raised"
    /\ PagesUnique(pages)

\* the hashes of the files in the source directory
HashesOnDisk(fs) == {fs[p] : p \in {q \in Paths : fs[q] # NoFile}}

NonMissing(pg) == {i \in PresentIds(pg) : ~pg[i].is_missing}

\* C37: after a completed scan every non-missing Page has, at its rel_path, a
\* file whose hash is the Page's file_hash, and every hash on disk is the
\* file_hash of exactly one non-missing Page.
C37_PagesMatchDisk ==
    AfterScan
        => /\ \A i \in NonMissing(pages) : files[pages[i].rel_path] = pages[i].file_hash
           /\ \A h \in HashesOnDisk(files) :
                 Cardinality({i \in NonMissing(pages) : pages[i].file_hash = h}) = 1

\* the Pages whose is_missing goes from false to true in the step
NewlyMissing == {i \in PresentIds(pages) : ~pages[i].is_missing /\ pages'[i].is_missing}

C38_SumOfParts ==
    summary.outcome = "returned"
        => summary.scanned_files
             = summary.new_pages + summary.updated_pages + summary.duplicate_files

C38_MissingCounted ==
    ScanReturns => summary'.missing_marked = Cardinality(NewlyMissing)

\* C38: every ScanSummary satisfies scanned_files = new_pages + updated_pages
\* + duplicate_files, and its missing_marked is the number of Pages whose
\* is_missing went from false to true in that scan; Pages that were missing
\* before the scan are not counted again.
C38_SummaryCounts ==
    /\ []C38_SumOfParts
    /\ [][C38_MissingCounted]_vars

\* a scan that marked one Page missing while another Page was missing already
C38_Witness ==
    /\ AfterScan
    /\ summary.missing_marked = 1
    /\ Cardinality({i \in PresentIds(pages) : pages[i].is_missing}) = 2

\* C39: a wipe that runs while the worker holds a claimed Job does not make
\* the worker's finalization hit another Job: no Job goes from queued
\* straight to completed or failed, also when the Job was enqueued after
\* the wipe and received the id of the Job the worker holds.
C39_FinalizeHitsOwnJob ==
    [][\A id \in JobIds :
          (id <= Len(jobs') /\ jobs[id].status = "queued")
              => jobs'[id].status \notin {"completed", "failed"}]_vars

\* C40: every Job with status running is the Job held by a live worker
\* thread, also after a store error ended the worker while it was finalizing
\* or emitting an Event: no Job stays running with no worker executing it.
C40_RunningIsHeld ==
    \A id \in JobIds :
        jobs[id].status = "running"
            => \E w \in Workers : IsAlive(w) /\ wjob[w].id = id

====
